---------------------------- MODULE Spec2Model ----------------------------
(***************************************************************************)
(* Model of the x86_64 paging subsystem of sparkle:                        *)
(*   src/src/arch/x86_64/memory/mod.rs         Frame, FrameIter, init      *)
(*   src/src/arch/x86_64/memory/paging/mod.rs  ActivePageTable::with,      *)
(*        ActivePageTable::switch, InactivePageTable::new, remap_kernel    *)
(*   src/src/lib.rs                            panic_fmt (halts forever)   *)
(*                                                                         *)
(* Physical memory is an arena of frames, each read as a page table (a     *)
(* sparse map from entry index to entry).  The processor resolves a        *)
(* virtual page through the TLB first and through a four-level walk from   *)
(* CR3 otherwise; every table access of the mapper goes through the        *)
(* recursive addresses built from index 511, so the table that is edited   *)
(* is decided by the hardware state, as in the code.                       *)
(*                                                                         *)
(* mapper.rs, table.rs, temporary_page.rs, page.rs and the frame           *)
(* allocator are not among the source files; they are modelled from the    *)
(* specification (sections 4.1 to 4.5).                                    *)
(***************************************************************************)
EXTENDS Integers, Sequences, FiniteSets, TLC

VARIABLES
    pc,         \* position in init, in remap_kernel and in the calls they make
    halted,     \* TRUE once a panic or a fault stopped the kernel (panic_fmt loops)
    cr3,        \* the control register: physical address of the P4 in use
    mem,        \* physical memory: frame index -> table (sparse index -> entry)
    tlb,        \* cached translations: page -> frame
    free,       \* the caller's FrameAllocator: the frames it can still hand out
    tiny,       \* the private 3-frame pool of the TemporaryPage
    mm_tag,     \* boot_info: whether the memory-map tag is there
    areas,      \* boot_info: the memory areas of the memory map
    elf_tag,    \* boot_info: whether the ELF-sections tag is there
    sections,   \* boot_info: the ELF sections of the tag
    bi_start,   \* boot_info.start_address()
    bi_end,     \* boot_info.end_address()
    new_table,  \* remap_kernel: new_table.p4_frame (NoFrame before allocation)
    backup,     \* with: the backed-up P4 frame
    sec_i,      \* body: index of the section under the for loop
    iter,       \* body: the FrameIter under the inner for loop, [start, end]
    old_table,  \* remap_kernel: old_table.p4_frame returned by switch
    pre,        \* the active P4 frame and physical memory when with was entered
    called,     \* init: the flag behind assert_first_call!
    kernel,     \* init: [start, end], kernel_start and kernel_end
    out,        \* the diagnostic lines emitted so far
    cpu,        \* the processor's feature bits [nxe, wp] and the toggle calls made
    yielded     \* the frames a FrameIter run to its end has yielded, in order

vars == <<pc, halted, cr3, mem, tlb, free, tiny, mm_tag, areas, elf_tag, sections,
          bi_start, bi_end, new_table, backup, sec_i, iter, old_table, pre,
          called, kernel, out, cpu, yielded>>

----------------------------------------------------------------------------
(* Program constants *)

PAGE_SIZE == 4096

ENTRY_COUNT == 512

RECURSIVE_INDEX == 511

VGA_BUFFER == 753664     \* 0xb8000

NoFrame == -1

NoPage == <<>>

(* Bounds of the model *)

MaxAllocFrames == 8

MaxFrameIndex == 3

----------------------------------------------------------------------------
(* Frame: memory/mod.rs *)

\* (mutant) Frame::containing_address rounds up to the next frame
containing_address_rounded_up(address) == (address + PAGE_SIZE - 1) \div PAGE_SIZE

\* (mutant) FrameIter::next stops one frame before `end`
FrameIter_next_exclusive(it) ==
    IF it.start < it.end
    THEN [item |-> it.start, it |-> [it EXCEPT !.start = it.start + 1]]
    ELSE [item |-> NoFrame, it |-> it]

containing_address(address) == address \div PAGE_SIZE

start_address(index) == index * PAGE_SIZE

next_frame(index) == index + 1

\* FrameIter { start, end } as a record
range_inclusive(start, end) == [start |-> start, end |-> end]

\* FrameIter::next: the frame yielded (NoFrame for None) and the iterator after
FrameIter_next(it) ==
    IF it.start <= it.end
    THEN [item |-> it.start, it |-> [it EXCEPT !.start = it.start + 1]]
    ELSE [item |-> NoFrame, it |-> it]

----------------------------------------------------------------------------
(* Page: a virtual page as its four 9-bit table indices <<p4, p3, p2, p1>> *)

PageOfIndex(index) ==
    << (index \div (ENTRY_COUNT * ENTRY_COUNT * ENTRY_COUNT)) % ENTRY_COUNT,
       (index \div (ENTRY_COUNT * ENTRY_COUNT)) % ENTRY_COUNT,
       (index \div ENTRY_COUNT) % ENTRY_COUNT,
       index % ENTRY_COUNT >>

Page_containing_address(address) == PageOfIndex(address \div PAGE_SIZE)

\* Page::new(0xabadcafe): 0xabadcafe = ((21 * 512 + 235) * 512 + 229) * 512 + 254
ScratchPage == <<21, 235, 229, 254>>

\* the fixed virtual page of the P4 table under recursive mapping
P4Page == <<RECURSIVE_INDEX, RECURSIVE_INDEX, RECURSIVE_INDEX, RECURSIVE_INDEX>>

\* the virtual page of the table below entry i of the table at page tp
NextTablePage(tp, i) == <<tp[2], tp[3], tp[4], i>>

----------------------------------------------------------------------------
(* Table entries and physical memory *)

Unused == [frame |-> 0, flags |-> {}]

Entry(f, fl) == [frame |-> f, flags |-> fl]

EmptyTable == [i \in {} |-> Unused]

PW == {"PRESENT", "WRITABLE"}

Get(mm, f, i) ==
    IF f \in DOMAIN mm /\ i \in DOMAIN mm[f] THEN mm[f][i] ELSE Unused

Put(t, i, e) ==
    IF e = Unused
    THEN [j \in DOMAIN t \ {i} |-> t[j]]
    ELSE [j \in DOMAIN t \cup {i} |-> IF j = i THEN e ELSE t[j]]

PutMem(mm, f, i, e) ==
    IF f \in DOMAIN mm THEN [mm EXCEPT ![f] = Put(@, i, e)] ELSE mm

ZeroMem(mm, f) ==
    IF f \in DOMAIN mm THEN [mm EXCEPT ![f] = EmptyTable] ELSE mm

----------------------------------------------------------------------------
(* The processor: four-level walk from a root frame, TLB, control register *)

Cr3Frame(cr) == containing_address(cr)

Walk(mm, root, page) ==
    LET e4 == Get(mm, root, page[1]) IN
    IF "PRESENT" \notin e4.flags THEN NoFrame ELSE
    LET e3 == Get(mm, e4.frame, page[2]) IN
    IF "PRESENT" \notin e3.flags THEN NoFrame ELSE
    LET e2 == Get(mm, e3.frame, page[3]) IN
    IF "PRESENT" \notin e2.flags THEN NoFrame ELSE
    LET e1 == Get(mm, e2.frame, page[4]) IN
    IF "PRESENT" \notin e1.flags THEN NoFrame ELSE e1.frame

\* the frame an access to `page` reaches: a cached translation wins
Resolve(s, page) ==
    IF page \in DOMAIN s.tlb THEN s.tlb[page]
    ELSE Walk(s.mem, Cr3Frame(s.cr3), page)

\* an access to `page`: fills the TLB, or faults (no handler: the kernel stops)
Touch(s, page) ==
    IF s.st # "ok" THEN s
    ELSE IF page \in DOMAIN s.tlb THEN s
    ELSE LET f == Walk(s.mem, Cr3Frame(s.cr3), page) IN
         IF f = NoFrame THEN [s EXCEPT !.st = "fault"]
         ELSE [s EXCEPT !.tlb = [p \in DOMAIN s.tlb \cup {page} |->
                                    IF p = page THEN f ELSE s.tlb[p]]]

EmptyTlb == [p \in {} |-> NoFrame]

flush_all(s) == IF s.st # "ok" THEN s ELSE [s EXCEPT !.tlb = EmptyTlb]

flush(s, page) ==
    IF s.st # "ok" THEN s
    ELSE [s EXCEPT !.tlb = [p \in DOMAIN s.tlb \ {page} |-> s.tlb[p]]]

----------------------------------------------------------------------------
(* Sequencing: F applied to the value of x, x evaluated once *)

Then(x, F(_)) == CHOOSE r \in {F(y) : y \in {x}} : TRUE

----------------------------------------------------------------------------
(* FrameAllocator (specification 4.1): alloc_frame hands out the next free  *)
(* frame or nothing; dealloc_frame makes the frame the next one issued.     *)
(* `who` names the allocator: "main" (the caller's) or "tiny" (the private  *)
(* pool of the TemporaryPage, which holds at most three frames).            *)

TINY_CAPACITY == 3

alloc_frame(s, who) ==
    IF who = "tiny"
    THEN IF s.tiny = <<>> THEN [frame |-> NoFrame, s |-> s]
         ELSE [frame |-> Head(s.tiny), s |-> [s EXCEPT !.tiny = Tail(@)]]
    ELSE IF s.free = <<>> THEN [frame |-> NoFrame, s |-> s]
         ELSE [frame |-> Head(s.free), s |-> [s EXCEPT !.free = Tail(@)]]

dealloc_frame(s, who, f) ==
    IF s.st # "ok" THEN s
    ELSE IF who = "tiny"
         THEN IF Len(s.tiny) >= TINY_CAPACITY THEN [s EXCEPT !.st = "panic"]
              ELSE [s EXCEPT !.tiny = <<f>> \o @]
         ELSE [s EXCEPT !.free = <<f>> \o @]

----------------------------------------------------------------------------
(* Table (specification 4.3), reached through the virtual page tp *)

EntryAt(s, tp, i) == Get(s.mem, Resolve(s, tp), i)

SetEntry(s, tp, i, e) ==
    Then(Touch(s, tp), LAMBDA s1 :
        IF s1.st # "ok" THEN s1
        ELSE [s1 EXCEPT !.mem = PutMem(@, Resolve(s1, tp), i, e)])

zero(s, tp) ==
    Then(Touch(s, tp), LAMBDA s1 :
        IF s1.st # "ok" THEN s1
        ELSE [s1 EXCEPT !.mem = ZeroMem(@, Resolve(s1, tp))])

\* next_table: the page of the child table, if the entry is present
next_table(s, tp, i) ==
    IF Resolve(s, tp) # NoFrame /\ "PRESENT" \in EntryAt(s, tp, i).flags
    THEN NextTablePage(tp, i)
    ELSE NoPage

\* next_table_create: descend one level, allocating, linking and zeroing a
\* fresh child table when there is none
next_table_create(s, tp, i, who) ==
    Then(Touch(s, tp), LAMBDA s1 :
        IF s1.st # "ok" THEN s1
        ELSE IF "PRESENT" \in EntryAt(s1, tp, i).flags THEN s1
        ELSE Then(alloc_frame(s1, who), LAMBDA a :
            IF a.frame = NoFrame THEN [s1 EXCEPT !.st = "panic"]
            ELSE Then(SetEntry(a.s, tp, i, Entry(a.frame, PW)), LAMBDA s2 :
                     zero(s2, NextTablePage(tp, i)))))

----------------------------------------------------------------------------
(* Mapper (specification 4.4) *)

P3Page(page) == NextTablePage(P4Page, page[1])

P2Page(page) == NextTablePage(P3Page(page), page[2])

P1Page(page) == NextTablePage(P2Page(page), page[3])

\* translate: the frame `page` is mapped to (NoFrame if any level is absent),
\* walking P4 -> P1 through the recursive addresses
translate(s, page) ==
    IF next_table(s, P4Page, page[1]) = NoPage THEN NoFrame
    ELSE IF next_table(s, P3Page(page), page[2]) = NoPage THEN NoFrame
    ELSE IF next_table(s, P2Page(page), page[3]) = NoPage THEN NoFrame
    ELSE IF next_table(s, P1Page(page), page[4]) = NoPage THEN NoFrame
    ELSE EntryAt(s, P1Page(page), page[4]).frame

\* the accesses translate makes: every table page it reads enters the TLB
translate_touch(s, page) ==
    IF next_table(s, P4Page, page[1]) = NoPage THEN Touch(s, P4Page)
    ELSE Then(Touch(s, P4Page), LAMBDA s4 :
        IF next_table(s4, P3Page(page), page[2]) = NoPage
        THEN Touch(s4, P3Page(page))
        ELSE Then(Touch(s4, P3Page(page)), LAMBDA s3 :
            IF next_table(s3, P2Page(page), page[3]) = NoPage
            THEN Touch(s3, P2Page(page))
            ELSE Then(Touch(s3, P2Page(page)), LAMBDA s2 :
                     Touch(s2, P1Page(page)))))

map_to(s, page, frame, flags, who) ==
    Then(next_table_create(s, P4Page, page[1], who), LAMBDA s3 :
    Then(next_table_create(s3, P3Page(page), page[2], who), LAMBDA s2 :
    Then(next_table_create(s2, P2Page(page), page[3], who), LAMBDA s1 :
    Then(Touch(s1, P1Page(page)), LAMBDA s0 :
        IF s0.st # "ok" THEN s0
        ELSE IF EntryAt(s0, P1Page(page), page[4]) # Unused
             THEN [s0 EXCEPT !.st = "panic"]
        ELSE SetEntry(s0, P1Page(page), page[4],
                      Entry(frame, flags \cup {"PRESENT"}))))))

identity_map(s, frame, flags, who) ==
    map_to(s, PageOfIndex(frame), frame, flags, who)

unmap(s, page, who) ==
    IF s.st # "ok" THEN s
    ELSE IF translate(s, page) = NoFrame THEN [s EXCEPT !.st = "panic"]
    ELSE Then(translate_touch(s, page), LAMBDA s1 :
         Then(SetEntry(s1, P1Page(page), page[4], Unused), LAMBDA s2 :
         Then(flush(s2, page), LAMBDA s3 :
              dealloc_frame(s3, who, EntryAt(s1, P1Page(page), page[4]).frame))))

----------------------------------------------------------------------------
(* TemporaryPage (specification 4.5) *)

\* TemporaryPage::new: the private pool takes up to three frames
TemporaryPage_new(s) ==
    LET n == IF Len(s.free) < TINY_CAPACITY THEN Len(s.free) ELSE TINY_CAPACITY IN
    [s EXCEPT !.tiny = SubSeq(s.free, 1, n),
              !.free = SubSeq(s.free, n + 1, Len(s.free))]

\* map_table_frame: the scratch page must be unmapped; map it to `frame`
map_table_frame(s, frame) ==
    IF s.st # "ok" THEN s
    ELSE IF translate(s, ScratchPage) # NoFrame THEN [s EXCEPT !.st = "panic"]
    ELSE Then(translate_touch(s, ScratchPage), LAMBDA s1 :
              map_to(s1, ScratchPage, frame, {"WRITABLE"}, "tiny"))

TemporaryPage_unmap(s) == unmap(s, ScratchPage, "tiny")

\* EntryFlags::from_elf_section_flags
from_elf_section_flags(section) ==
    (IF section.allocated THEN {"PRESENT"} ELSE {})
    \cup (IF section.writable THEN {"WRITABLE"} ELSE {})
    \cup (IF ~section.executable THEN {"NO_EXECUTE"} ELSE {})

----------------------------------------------------------------------------
(* The boot environment: what remap_kernel is entered with *)

Section(addr, size, allocated, writable, executable) ==
    [addr |-> addr, size |-> size, allocated |-> allocated,
     writable |-> writable, executable |-> executable]

section_start_address(section) == section.addr

section_end_address(section) == section.addr + section.size

\* the section lists the boot loader may hand over
SectionLists ==
    { \* one writable section on frames 10..12
      << Section(10 * PAGE_SIZE, 3 * PAGE_SIZE, TRUE, TRUE, FALSE) >>,
      \* text on 10..11, an unloaded section, data on 12..13 ending mid-frame
      << Section(10 * PAGE_SIZE, 2 * PAGE_SIZE, TRUE, FALSE, TRUE),
         Section(0, 100, FALSE, FALSE, FALSE),
         Section(12 * PAGE_SIZE, PAGE_SIZE + 100, TRUE, TRUE, FALSE) >>,
      \* an aligned section, then one that starts mid-frame
      << Section(10 * PAGE_SIZE, PAGE_SIZE, TRUE, FALSE, TRUE),
         Section(11 * PAGE_SIZE + 16, PAGE_SIZE, TRUE, TRUE, FALSE) >>,
      \* a section across the boundary of two P1 tables (frames 511..512)
      << Section(511 * PAGE_SIZE, 2 * PAGE_SIZE, TRUE, TRUE, FALSE) >>,
      \* no section is loaded to memory
      << Section(0, 100, FALSE, FALSE, FALSE) >> }

\* the boot-information block: <<start_address, end_address>>
BootInfoRanges ==
    { << 5 * PAGE_SIZE, 5 * PAGE_SIZE + 200 >>,            \* frame 5
      << 5 * PAGE_SIZE + 4000, 6 * PAGE_SIZE + 100 >>,     \* frames 5..6
      << 12 * PAGE_SIZE + 2048, 12 * PAGE_SIZE + 2300 >>,  \* inside frame 12
      << 13 * PAGE_SIZE + 200, 13 * PAGE_SIZE + 400 >> }   \* inside frame 13

\* where the boot code put its P4 table: inside the kernel image or outside
BootP4Frames == {11, 20}

BootP3 == 21

BootP2 == 22

BootP1 == 23

AllocFirst == 100

AllocFrames == AllocFirst .. (AllocFirst + MaxAllocFrames - 1)

\* the frames whose contents are tracked (every frame that can hold a table)
TableFrames == BootP4Frames \cup {BootP3, BootP2, BootP1} \cup AllocFrames

\* the low pages the boot tables identity-map: all the frames in play, or
\* (a partially-mapped boot address space) only the boot tables themselves
BootMappings ==
    { {5, 6, 10, 11, 12, 13, 20, BootP3, BootP2, BootP1, 184, 511},
      {BootP3, BootP2, BootP1} }

\* what a frame never written by this kernel may hold
StaleTable(p4) ==
    [i \in {0, 7, RECURSIVE_INDEX} |->
        IF i = 0 THEN Entry(BootP3, PW)
        ELSE IF i = 7 THEN Entry(184, {"PRESENT"})
        ELSE Entry(p4, PW)]

BootMem(p4, mapped, stale) ==
    [f \in TableFrames |->
        IF f = p4 THEN [i \in {0, RECURSIVE_INDEX} |->
                           IF i = 0 THEN Entry(BootP3, PW) ELSE Entry(p4, PW)]
        ELSE IF f = BootP3 THEN [i \in {0} |-> Entry(BootP2, PW)]
        ELSE IF f = BootP2 THEN [i \in {0} |-> Entry(BootP1, PW)]
        ELSE IF f = BootP1 THEN [i \in mapped |-> Entry(i, PW)]
        ELSE IF f \in AllocFrames /\ stale THEN StaleTable(p4)
        ELSE EmptyTable]

\* one memory area [base_addr, length] of the memory map
Area(base_addr, length) == [base_addr |-> base_addr, length |-> length]

NoCpuFeatures == [nxe |-> FALSE, wp |-> FALSE, calls |-> <<>>]

NoAddress == -1

Init ==
    /\ pc = "boot"
    /\ halted = FALSE
    /\ \E p4 \in BootP4Frames, mapped \in BootMappings, stale \in BOOLEAN :
          /\ cr3 = start_address(p4)
          /\ mem = BootMem(p4, mapped, stale)
    /\ tlb = EmptyTlb
    /\ \/ /\ mm_tag = TRUE
          /\ \E n \in 0 .. MaxAllocFrames :
                areas = << Area(start_address(AllocFirst), n * PAGE_SIZE) >>
       \/ /\ mm_tag = FALSE
          /\ areas = <<>>
    /\ free = <<>>
    /\ tiny = <<>>
    /\ \/ elf_tag = TRUE /\ sections \in SectionLists
       \/ elf_tag = FALSE /\ sections = <<>>
    /\ \E r \in BootInfoRanges : bi_start = r[1] /\ bi_end = r[2]
    /\ new_table = NoFrame
    /\ backup = NoFrame
    /\ sec_i = 0
    /\ iter = range_inclusive(0, 0)
    /\ old_table = NoFrame
    /\ pre = [p4 |-> NoFrame, mem |-> <<>>]
    /\ called = FALSE
    /\ kernel = [start |-> NoAddress, end |-> NoAddress]
    /\ out = <<>>
    /\ cpu = NoCpuFeatures
    /\ yielded = <<>>

----------------------------------------------------------------------------
(* Machine state handed to the operators, and its write-back *)

Machine ==
    [mem |-> mem, tlb |-> tlb, free |-> free, tiny |-> tiny, cr3 |-> cr3,
     st |-> "ok"]

\* lib.rs panic_fmt: a panic never returns; the kernel stays where it failed
Commit(x, next_pc) ==
    \E s \in {x} :
        /\ mem' = s.mem
        /\ tlb' = s.tlb
        /\ free' = s.free
        /\ tiny' = s.tiny
        /\ cr3' = s.cr3
        /\ halted' = (s.st # "ok")
        /\ pc' = IF s.st = "ok" THEN next_pc ELSE pc

Panic(s) == [s EXCEPT !.st = "panic"]

Running(at) == ~halted /\ pc = at

boot_info == <<mm_tag, areas, elf_tag, sections, bi_start, bi_end>>

locals == <<new_table, backup, sec_i, iter, old_table, pre, yielded>>

init_locals == <<called, kernel>>

\* info! / debug!: one more diagnostic line
Emit(lines, line) == Append(lines, line)

----------------------------------------------------------------------------
(* memory::init, memory/mod.rs lines 81-115 *)

\* (mutant) the call is let through whatever the flag says
init_assert_first_call_unchecked(s, flag) == s

\* line 82: assert_first_call!(..): a call that finds the flag set is refused
init_assert_first_call(s, flag) == IF flag THEN Panic(s) ELSE s

\* lines 84-85: boot_info.memory_map_tag().expect(..)
init_memory_map_tag(s, tag) == IF tag THEN s ELSE Panic(s)

\* lines 86-87: boot_info.elf_sections_tag().expect(..)
init_elf_sections_tag(s, tag) == IF tag THEN s ELSE Panic(s)

\* lines 89-93: the header, then one line for each memory area
init_memory_areas(lines, ars) ==
    Emit(lines, "memory areas:") \o [k \in 1 .. Len(ars) |-> "  start, length"]

AllocatedSections(secs) == {secs[i] : i \in {j \in 1 .. Len(secs) : secs[j].allocated}}

\* lines 95-96: the least start address of an allocated section (None if none)
init_kernel_start(secs) ==
    LET S == {s.addr : s \in AllocatedSections(secs)} IN
    IF S = {} THEN NoAddress ELSE CHOOSE a \in S : \A b \in S : a <= b

\* lines 97-98: the greatest end address of an allocated section (None if none)
init_kernel_end(secs) ==
    LET S == {s.addr + s.size : s \in AllocatedSections(secs)} IN
    IF S = {} THEN NoAddress ELSE CHOOSE a \in S : \A b \in S : a >= b

\* (mutant) the extents are computed and not reported
init_extents_silent(lines) == lines

\* lines 100-103: the kernel extent, then the boot-information extent
init_extents(lines) ==
    Emit(Emit(lines, "kernel start, kernel end"), "multiboot start, multiboot end")

\* a frame that holds a byte of [first, last)
Overlaps(f, first, last) ==
    first < start_address(next_frame(f)) /\ start_address(f) < last

\* AreaFrameAllocator::new (specification 6): the frames of the memory areas,
\* in ascending order, without those of the kernel image or of the
\* boot-information block
AreaFrameAllocator_new(s, kernel_start, kernel_end, multiboot_start, multiboot_end, ars) ==
    LET InArea == UNION { { f \in containing_address(a.base_addr) ..
                                  containing_address(a.base_addr + a.length - 1) :
                               a.length > 0 } :
                          a \in {ars[k] : k \in 1 .. Len(ars)} }
        Usable == { f \in InArea : /\ ~Overlaps(f, kernel_start, kernel_end)
                                   /\ ~Overlaps(f, multiboot_start, multiboot_end) }
    IN [s EXCEPT !.free =
           [k \in 1 .. Cardinality(Usable) |->
               CHOOSE f \in Usable : Cardinality({g \in Usable : g < f}) = k - 1]]

\* line 110: x86_64::enable_nxe_bit()
enable_nxe_bit(c) == [c EXCEPT !.nxe = TRUE, !.calls = Append(@, "nxe")]

\* (mutant) the write-protect bit is left as it is
enable_wrprot_bit_omitted(c) == c

\* line 111: x86_64::enable_wrprot_bit()
enable_wrprot_bit(c) == [c EXCEPT !.wp = TRUE, !.calls = Append(@, "wrprot")]

\* line 82, on every call of init: the first one, or one after init has returned
init_enter ==
    /\ ~halted
    /\ pc \in {"boot", "returned"}
    /\ Commit(init_assert_first_call(Machine, called), "init_mm_tag")
    /\ called' = TRUE
    /\ UNCHANGED <<boot_info, locals, kernel, out, cpu>>

init_mm_tag ==
    /\ Running("init_mm_tag")
    /\ Commit(init_memory_map_tag(Machine, mm_tag), "init_elf_tag")
    /\ UNCHANGED <<boot_info, locals, init_locals, out, cpu>>

init_elf_tag ==
    /\ Running("init_elf_tag")
    /\ Commit(init_elf_sections_tag(Machine, elf_tag), "init_areas")
    /\ UNCHANGED <<boot_info, locals, init_locals, out, cpu>>

init_areas ==
    /\ Running("init_areas")
    /\ Commit(Machine, "init_kernel")
    /\ out' = init_memory_areas(out, areas)
    /\ UNCHANGED <<boot_info, locals, init_locals, cpu>>

\* lines 95-98: both extremes are unwrapped
init_kernel ==
    /\ Running("init_kernel")
    /\ \E ks \in {init_kernel_start(sections)}, ke \in {init_kernel_end(sections)} :
          IF ks = NoAddress \/ ke = NoAddress
          THEN /\ Commit(Panic(Machine), "init_kernel")
               /\ UNCHANGED kernel
          ELSE /\ Commit(Machine, "init_extents")
               /\ kernel' = [start |-> ks, end |-> ke]
    /\ UNCHANGED <<boot_info, locals, called, out, cpu>>

init_extents_step ==
    /\ Running("init_extents")
    /\ Commit(Machine, "init_allocator")
    /\ out' = init_extents(out)
    /\ UNCHANGED <<boot_info, locals, init_locals, cpu>>

\* lines 105-107
init_allocator ==
    /\ Running("init_allocator")
    /\ Commit(AreaFrameAllocator_new(Machine, kernel.start, kernel.end,
                                     bi_start, bi_end, areas),
              "init_nxe")
    /\ UNCHANGED <<boot_info, locals, init_locals, out, cpu>>

init_nxe ==
    /\ Running("init_nxe")
    /\ Commit(Machine, "init_wrprot")
    /\ cpu' = enable_nxe_bit(cpu)
    /\ UNCHANGED <<boot_info, locals, init_locals, out>>

\* line 111, then line 113 calls remap_kernel
init_wrprot ==
    /\ Running("init_wrprot")
    /\ Commit(Machine, "rk_start")
    /\ cpu' = enable_wrprot_bit(cpu)
    /\ UNCHANGED <<boot_info, locals, init_locals, out>>

\* line 114: remap_kernel has returned; the last line, and init returns
init_return ==
    /\ Running("done")
    /\ Commit(Machine, "returned")
    /\ out' = Emit(out, "-- kernel remapped --")
    /\ UNCHANGED <<boot_info, locals, init_locals, cpu>>

----------------------------------------------------------------------------
(* InactivePageTable::new, paging/mod.rs lines 122-139 *)

\* line 128: temporary_page.map_table_frame(frame.clone(), active_table)
new_map_table_frame(s, frame) == map_table_frame(s, frame)

\* (mutant) the frame is not zeroed
new_zero_skipped(s) == s

\* line 131: table.zero()
new_zero(s) == zero(s, ScratchPage)

\* (mutant) the self-reference is written without WRITABLE
new_set_recursive_readonly(s, frame) ==
    SetEntry(s, ScratchPage, RECURSIVE_INDEX, Entry(frame, {"PRESENT"}))

\* line 134: table[511].set(frame.clone(), PRESENT | WRITABLE)
new_set_recursive(s, frame) ==
    SetEntry(s, ScratchPage, RECURSIVE_INDEX, Entry(frame, PW))

\* (mutant) new returns with the scratch page still mapped
new_unmap_omitted(s) == s

\* line 136: temporary_page.unmap(active_table)
new_unmap(s) == TemporaryPage_unmap(s)

----------------------------------------------------------------------------
(* ActivePageTable::with, paging/mod.rs lines 57-87 *)

\* line 66: Frame::containing_address(Cr3::read().0.start_address())
with_backup(s) == containing_address(s.cr3)

\* line 69: scratch_page.map_table_frame(backup.clone(), self)
with_map_table_frame(s, bk) == map_table_frame(s, bk)

\* (mutant) the inactive P4 frame is written to the slot below the recursive one
with_overwrite_wrong_slot(s, table) ==
    SetEntry(s, P4Page, RECURSIVE_INDEX - 1, Entry(table, PW))

\* lines 72-75: self.p4_mut()[511].set(table.p4_frame.clone(), PRESENT | WRITABLE)
with_overwrite(s, table) ==
    SetEntry(s, P4Page, RECURSIVE_INDEX, Entry(table, PW))

\* (mutant) no flush after the substitution
with_flush_before_omitted(s) == s

\* line 76: tlb::flush_all()
with_flush_before(s) == flush_all(s)

\* (mutant) the self-reference is restored without WRITABLE
with_restore_readonly(s, bk) ==
    SetEntry(s, ScratchPage, RECURSIVE_INDEX, Entry(bk, {"PRESENT"}))

\* (mutant) the self-reference is restored through the recursive address
with_restore_through_recursive(s, bk) ==
    SetEntry(s, P4Page, RECURSIVE_INDEX, Entry(bk, PW))

\* (mutant) the self-reference is not restored
with_restore_omitted(s, bk) == s

\* line 82: p4_table[511].set(backup, PRESENT | WRITABLE)
with_restore(s, bk) ==
    SetEntry(s, ScratchPage, RECURSIVE_INDEX, Entry(bk, PW))

\* line 83: tlb::flush_all()
with_flush_after(s) == flush_all(s)

\* line 86: scratch_page.unmap(self)
with_unmap(s) == TemporaryPage_unmap(s)

----------------------------------------------------------------------------
(* ActivePageTable::switch, paging/mod.rs lines 93-113 *)

\* (mutant) the address read from CR3 is kept as if it were a frame index
switch_old_table_address(s) == s.cr3

\* lines 98-100: the table that was active
switch_old_table(s) == containing_address(s.cr3)

\* (mutant) the control register is written back as it was read
switch_write_cr3_unchanged(s, table) == [s EXCEPT !.tlb = EmptyTlb]

\* lines 102-110: Cr3::write; the processor drops the cached translations
switch_write_cr3(s, table) ==
    [s EXCEPT !.cr3 = start_address(table), !.tlb = EmptyTlb]

----------------------------------------------------------------------------
(* remap_kernel, paging/mod.rs lines 143-211 *)

\* (mutant) the alignment assertion is dropped
section_aligned_unchecked(section) == TRUE

\* lines 169-172: assert!(section.start_address() % Frame::SIZE == 0)
section_aligned(section) == section_start_address(section) % PAGE_SIZE = 0

\* (mutant) the last frame is the one of the end address itself
section_frames_past_end(section) ==
    range_inclusive(containing_address(section_start_address(section)),
                    containing_address(section_end_address(section)))

\* (mutant) the last frame is taken from the end address, then stepped back
section_frames_short(section) ==
    range_inclusive(containing_address(section_start_address(section)),
                    containing_address(section_end_address(section)) - 1)

\* lines 180-182: the frames of a section
section_frames(section) ==
    range_inclusive(containing_address(section_start_address(section)),
                    containing_address(section_end_address(section) - 1))

\* line 188
vga_buffer_frame == containing_address(VGA_BUFFER)

\* lines 192-194: the frames of the boot-information block
multiboot_frames(first, last) ==
    range_inclusive(containing_address(first), containing_address(last - 1))

\* line 195
multiboot_flags == PW

\* (mutant) the page after the old P4 frame's
old_p4_page_after(old) == Page_containing_address(start_address(old) + PAGE_SIZE)

\* line 203: Page::containing_address(old_table.p4_frame.start_address())
old_p4_page(old) == Page_containing_address(start_address(old))

\* line 147: TemporaryPage::new(Page::new(0xabadcafe), allocator); line 149
rk_start ==
    /\ Running("rk_start")
    /\ Commit(TemporaryPage_new(Machine), "rk_alloc")
    /\ UNCHANGED <<boot_info, locals, init_locals, out, cpu>>

\* (mutant) the result of alloc_frame is used without the expect
rk_alloc_unchecked(a) == a.s

\* lines 151-153: .expect(..) on the result of alloc_frame
rk_alloc_expect(a) == IF a.frame = NoFrame THEN Panic(a.s) ELSE a.s

\* lines 151-153: allocator.alloc_frame().expect(..)
rk_alloc ==
    /\ Running("rk_alloc")
    /\ \E a \in {alloc_frame(Machine, "main")} :
       /\ Commit(rk_alloc_expect(a), "new_map")
       /\ new_table' = a.frame
    /\ UNCHANGED <<boot_info, backup, sec_i, iter, old_table, pre, yielded, init_locals, out, cpu>>

new_map ==
    /\ Running("new_map")
    /\ Commit(new_map_table_frame(Machine, new_table), "new_zero")
    /\ UNCHANGED <<boot_info, locals, init_locals, out, cpu>>

new_zero_step ==
    /\ Running("new_zero")
    /\ Commit(new_zero(Machine), "new_set")
    /\ UNCHANGED <<boot_info, locals, init_locals, out, cpu>>

new_set ==
    /\ Running("new_set")
    /\ Commit(new_set_recursive(Machine, new_table), "new_unmap")
    /\ UNCHANGED <<boot_info, locals, init_locals, out, cpu>>

new_unmap_step ==
    /\ Running("new_unmap")
    /\ Commit(new_unmap(Machine), "with_map")
    /\ UNCHANGED <<boot_info, locals, init_locals, out, cpu>>

with_map ==
    /\ Running("with_map")
    /\ \E bk \in {with_backup(Machine)} :
          /\ backup' = bk
          /\ Commit(with_map_table_frame(Machine, bk), "with_overwrite")
    /\ pre' = [p4 |-> Cr3Frame(cr3), mem |-> mem]
    /\ UNCHANGED <<boot_info, new_table, sec_i, iter, old_table, yielded, init_locals, out, cpu>>

with_overwrite_step ==
    /\ Running("with_overwrite")
    /\ Commit(with_overwrite(Machine, new_table), "with_flush1")
    /\ UNCHANGED <<boot_info, locals, init_locals, out, cpu>>

with_flush1 ==
    /\ Running("with_flush1")
    /\ Commit(with_flush_before(Machine), "body_tag")
    /\ UNCHANGED <<boot_info, locals, init_locals, out, cpu>>

\* lines 158-160: boot_info.elf_sections_tag().expect(..)
body_tag ==
    /\ Running("body_tag")
    /\ Commit(IF ~elf_tag THEN Panic(Machine) ELSE Machine,
              "body_section")
    /\ sec_i' = IF elf_tag THEN 1 ELSE sec_i
    /\ UNCHANGED <<boot_info, new_table, backup, iter, old_table, pre, yielded, init_locals, out, cpu>>

\* lines 163-182: the next section: skipped, refused, or its frames ranged
body_section ==
    /\ Running("body_section")
    /\ IF sec_i > Len(sections)
       THEN /\ Commit(Machine, "body_vga")
            /\ UNCHANGED <<sec_i, iter, out>>
       ELSE IF ~sections[sec_i].allocated
       THEN /\ Commit(Machine, "body_section")
            /\ sec_i' = sec_i + 1
            /\ UNCHANGED <<iter, out>>
       ELSE IF ~section_aligned(sections[sec_i])
       THEN /\ Commit(Panic(Machine), "body_section")
            /\ UNCHANGED <<sec_i, iter, out>>
       ELSE /\ Commit(Machine, "body_map")
            /\ iter' = section_frames(sections[sec_i])
            /\ out' = Emit(out, "Mapping section")
            /\ UNCHANGED sec_i
    /\ UNCHANGED <<boot_info, new_table, backup, old_table, pre, yielded, init_locals, cpu>>

\* lines 182-184: for frame in range { mapper.identity_map(frame, flags, allocator) }
body_map ==
    /\ Running("body_map")
    /\ \E r \in {FrameIter_next(iter)} :
       IF r.item = NoFrame
       THEN /\ Commit(Machine, "body_section")
            /\ sec_i' = sec_i + 1
            /\ UNCHANGED iter
       ELSE /\ Commit(identity_map(Machine, r.item,
                          from_elf_section_flags(sections[sec_i]), "main"),
                      "body_map")
            /\ iter' = r.it
            /\ UNCHANGED sec_i
    /\ UNCHANGED <<boot_info, new_table, backup, old_table, pre, yielded, init_locals, out, cpu>>

\* lines 188-193: the display buffer, then the boot-information range
body_vga ==
    /\ Running("body_vga")
    /\ \E s \in {identity_map(Machine, vga_buffer_frame, {"WRITABLE"}, "main")} :
          /\ Commit(s, "body_multiboot")
          /\ iter' = IF s.st = "ok" THEN multiboot_frames(bi_start, bi_end)
                                    ELSE iter
    /\ UNCHANGED <<boot_info, new_table, backup, sec_i, old_table, pre, yielded, init_locals, out, cpu>>

\* lines 194-196
body_multiboot ==
    /\ Running("body_multiboot")
    /\ \E r \in {FrameIter_next(iter)} :
       IF r.item = NoFrame
       THEN /\ Commit(Machine, "with_restore")
            /\ UNCHANGED iter
       ELSE /\ Commit(identity_map(Machine, r.item, multiboot_flags, "main"),
                      "body_multiboot")
            /\ iter' = r.it
    /\ UNCHANGED <<boot_info, new_table, backup, sec_i, old_table, pre, yielded, init_locals, out, cpu>>

with_restore_step ==
    /\ Running("with_restore")
    /\ Commit(with_restore(Machine, backup), "with_flush2")
    /\ UNCHANGED <<boot_info, locals, init_locals, out, cpu>>

with_flush2 ==
    /\ Running("with_flush2")
    /\ Commit(with_flush_after(Machine), "with_unmap")
    /\ UNCHANGED <<boot_info, locals, init_locals, out, cpu>>

with_unmap_step ==
    /\ Running("with_unmap")
    /\ Commit(with_unmap(Machine), "rk_switch")
    /\ UNCHANGED <<boot_info, locals, init_locals, out, cpu>>

\* lines 199-200: let old_table = active_table.switch(new_table)
rk_switch ==
    /\ Running("rk_switch")
    /\ old_table' = switch_old_table(Machine)
    /\ Commit(switch_write_cr3(Machine, new_table), "rk_guard")
    /\ out' = Emit(out, "kremap: successful table switch")
    /\ UNCHANGED <<boot_info, new_table, backup, sec_i, iter, pre, yielded, init_locals, cpu>>

\* lines 203-208: active_table.unmap(old_p4_page, allocator)
rk_guard ==
    /\ Running("rk_guard")
    /\ \E s \in {unmap(Machine, old_p4_page(old_table), "main")} :
          /\ Commit(s, "done")
          /\ out' = IF s.st = "ok"
                    THEN Emit(out, "kremap: guard page established")
                    ELSE out
    /\ UNCHANGED <<boot_info, locals, init_locals, cpu>>

\* the processor may drop cached translations at any time
TlbEvict ==
    /\ ~halted
    /\ tlb # EmptyTlb
    /\ tlb' = EmptyTlb
    /\ UNCHANGED <<pc, halted, cr3, mem, free, tiny, boot_info, locals, init_locals, out, cpu>>

Next ==
    \/ init_enter
    \/ init_mm_tag
    \/ init_elf_tag
    \/ init_areas
    \/ init_kernel
    \/ init_extents_step
    \/ init_allocator
    \/ init_nxe
    \/ init_wrprot
    \/ rk_start
    \/ rk_alloc
    \/ new_map
    \/ new_zero_step
    \/ new_set
    \/ new_unmap_step
    \/ with_map
    \/ with_overwrite_step
    \/ with_flush1
    \/ body_tag
    \/ body_section
    \/ body_map
    \/ body_vga
    \/ body_multiboot
    \/ with_restore_step
    \/ with_flush2
    \/ with_unmap_step
    \/ rk_switch
    \/ rk_guard
    \/ init_return
    \/ TlbEvict

Spec == Init /\ [][Next]_vars

----------------------------------------------------------------------------
(* ActivePageTable::switch on its own: from any active P4 frame, switch to  *)
(* a table T, then switch to the table the first call returned.             *)

SwitchFrames == BootP4Frames \cup AllocFrames

InitSwitch ==
    /\ pc = "sw_first"
    /\ halted = FALSE
    /\ \E p4 \in SwitchFrames :
          /\ cr3 = start_address(p4)
          /\ pre = [p4 |-> p4, mem |-> <<>>]
          /\ tlb \in {EmptyTlb, [p \in {P4Page} |-> p4]}
    /\ mem = [f \in SwitchFrames |-> [i \in {RECURSIVE_INDEX} |-> Entry(f, PW)]]
    /\ free = <<>>
    /\ tiny = <<>>
    /\ mm_tag = FALSE
    /\ areas = <<>>
    /\ elf_tag = FALSE
    /\ sections = <<>>
    /\ bi_start = 0
    /\ bi_end = 0
    /\ new_table \in SwitchFrames
    /\ backup = NoFrame
    /\ sec_i = 0
    /\ iter = range_inclusive(0, 0)
    /\ old_table = NoFrame
    /\ called = FALSE
    /\ kernel = [start |-> NoAddress, end |-> NoAddress]
    /\ out = <<>>
    /\ cpu = NoCpuFeatures
    /\ yielded = <<>>

\* let old = active_table.switch(T)
sw_first ==
    /\ Running("sw_first")
    /\ old_table' = switch_old_table(Machine)
    /\ Commit(switch_write_cr3(Machine, new_table), "sw_second")
    /\ UNCHANGED <<boot_info, new_table, backup, sec_i, iter, pre, yielded, init_locals, out, cpu>>

\* active_table.switch(old)
sw_second ==
    /\ Running("sw_second")
    /\ old_table' = switch_old_table(Machine)
    /\ Commit(switch_write_cr3(Machine, old_table), "sw_done")
    /\ UNCHANGED <<boot_info, new_table, backup, sec_i, iter, pre, yielded, init_locals, out, cpu>>

NextSwitch ==
    \/ sw_first
    \/ sw_second

SpecSwitch == InitSwitch /\ [][NextSwitch]_vars

----------------------------------------------------------------------------
(* Frame and FrameIter on their own: the frames of two addresses are taken  *)
(* as at lines 192-193 of paging/mod.rs, and the range between them is      *)
(* iterated to its end as the for loop at line 194 does.                    *)

\* addresses at the start, just inside and at the last byte of each frame
FrameAddresses ==
    {start_address(k) + o : k \in 0 .. MaxFrameIndex, o \in {0, 1, PAGE_SIZE - 1}}

InitFrame ==
    /\ pc = "fr_range"
    /\ halted = FALSE
    /\ cr3 = 0
    /\ mem = [f \in {} |-> EmptyTable]
    /\ tlb = EmptyTlb
    /\ free = <<>>
    /\ tiny = <<>>
    /\ mm_tag = FALSE
    /\ areas = <<>>
    /\ elf_tag = FALSE
    /\ sections = <<>>
    /\ bi_start \in FrameAddresses
    /\ bi_end \in FrameAddresses
    /\ new_table = NoFrame
    /\ backup = NoFrame
    /\ sec_i = 0
    /\ iter = range_inclusive(0, 0)
    /\ old_table = NoFrame
    /\ pre = [p4 |-> NoFrame, mem |-> <<>>]
    /\ called = FALSE
    /\ kernel = [start |-> NoAddress, end |-> NoAddress]
    /\ out = <<>>
    /\ cpu = NoCpuFeatures
    /\ yielded = <<>>

\* Frame::range_inclusive(Frame::containing_address(a), Frame::containing_address(b))
fr_range ==
    /\ Running("fr_range")
    /\ iter' = range_inclusive(containing_address(bi_start),
                               containing_address(bi_end))
    /\ pc' = "fr_next"
    /\ UNCHANGED <<halted, cr3, mem, tlb, free, tiny, boot_info, new_table, backup,
                   sec_i, old_table, pre, yielded, init_locals, out, cpu>>

\* one turn of `for frame in range`: FrameIter::next
fr_next ==
    /\ Running("fr_next")
    /\ \E r \in {FrameIter_next(iter)} :
          /\ iter' = r.it
          /\ IF r.item = NoFrame
             THEN pc' = "fr_done" /\ UNCHANGED yielded
             ELSE pc' = "fr_next" /\ yielded' = Append(yielded, r.item)
    /\ UNCHANGED <<halted, cr3, mem, tlb, free, tiny, boot_info, new_table, backup,
                   sec_i, old_table, pre, init_locals, out, cpu>>

NextFrame ==
    \/ fr_range
    \/ fr_next

SpecFrame == InitFrame /\ [][NextFrame]_vars

----------------------------------------------------------------------------
(* Observations used by the properties *)

Pg(f) == PageOfIndex(f)

ActiveP4 == Cr3Frame(cr3)

\* Mapper::translate on a virtual address, in the table now in use
translate_address(va) ==
    LET f == translate(Machine, Page_containing_address(va)) IN
    IF f = NoFrame THEN NoFrame ELSE start_address(f) + (va % PAGE_SIZE)

\* the P1 entry of a page, read by the mapper in the table now in use
LeafEntry(page) == EntryAt(Machine, P1Page(page), page[4])

\* every cached translation is the one a walk from CR3 gives now
TlbCoherent == \A p \in DOMAIN tlb : tlb[p] = Walk(mem, ActiveP4, p)

SelfMapped(mm, f) == Get(mm, f, RECURSIVE_INDEX) = Entry(f, PW)

BodyPcs == {"body_tag", "body_section", "body_map", "body_vga", "body_multiboot"}

\* inside with, after its first statement has run
WithPcs == {"with_overwrite", "with_flush1"} \cup BodyPcs
           \cup {"with_restore", "with_flush2", "with_unmap"}

\* the data frames the properties look at
ProbeFrames == {5, 6, 10, 11, 12, 13, 20, 184, 511, 512}

\* the frames a byte range [first, last) touches
SpannedFrames(first, last) ==
    {f \in ProbeFrames : first < (f + 1) * PAGE_SIZE /\ f * PAGE_SIZE < last}

SectionFrames(i) ==
    SpannedFrames(sections[i].addr, sections[i].addr + sections[i].size)

AllocatedSectionFrames ==
    UNION {SectionFrames(i) : i \in {j \in 1 .. Len(sections) : sections[j].allocated}}

DisplayFrames == {VGA_BUFFER \div PAGE_SIZE}

BootInfoFrames == SpannedFrames(bi_start, bi_end)

ExpectedFrames == AllocatedSectionFrames \cup DisplayFrames \cup BootInfoFrames

Offsets == {0, 1, PAGE_SIZE - 1}

----------------------------------------------------------------------------
(* C1: once remap_kernel has returned, the page whose index is that of the  *)
(* frame that held the P4 table before the remap is unmapped in the table   *)
(* now in use: the mapper's translate of every address in it is empty, and  *)
(* an access to it finds no translation (the guard page exists).            *)
C1_GuardPage ==
    pc = "done" =>
        /\ \A o \in Offsets : translate_address(start_address(pre.p4) + o) = NoFrame
        /\ Resolve(Machine, Pg(pre.p4)) = NoFrame

C1_Witness == pc = "done" /\ ~halted /\ pre.p4 \in AllocatedSectionFrames

----------------------------------------------------------------------------
(* C2: the mappings the body of with makes land in the hierarchy rooted at  *)
(* the inactive table's P4 frame and none in the active one: from the       *)
(* substitution until the switch the active hierarchy translates every data *)
(* page as it did when with was entered (also by the mapper once with has   *)
(* returned), and after the switch every page the body mapped translates to *)
(* the frame the body gave it.                                              *)
C2_BodyEditsInactive ==
    /\ pc \in (WithPcs \cup {"rk_switch"}) =>
          \A f \in ProbeFrames :
             Walk(mem, pre.p4, Pg(f)) = Walk(pre.mem, pre.p4, Pg(f))
    /\ pc \in BodyPcs \cup {"with_restore"} =>
          \A f \in ProbeFrames :
             Walk(mem, new_table, Pg(f)) = translate(Machine, Pg(f))
    /\ pc = "rk_switch" =>
          \A f \in ProbeFrames :
             translate(Machine, Pg(f)) = Walk(pre.mem, pre.p4, Pg(f))
    /\ pc = "rk_guard" =>
          \A f \in ExpectedFrames : translate(Machine, Pg(f)) = f

C2_Witness ==
    /\ pc = "rk_guard"
    /\ \E f \in ExpectedFrames : Walk(pre.mem, pre.p4, Pg(f)) = NoFrame

----------------------------------------------------------------------------
(* C3: with never writes the control register (inside with and when it has *)
(* returned CR3 still names the P4 frame it named on entry), and when with  *)
(* has returned entry 511 of the active P4 references the active P4 itself  *)
(* with PRESENT|WRITABLE, as before the call.                               *)
C3_WithKeepsCr3 ==
    /\ pc \in (WithPcs \cup {"rk_switch"}) => cr3 = start_address(pre.p4)
    /\ pc = "rk_switch" =>
          /\ SelfMapped(mem, ActiveP4)
          /\ Get(mem, ActiveP4, RECURSIVE_INDEX) = Get(pre.mem, pre.p4, RECURSIVE_INDEX)

C3_Witness == pc = "rk_switch" /\ ~halted /\ new_table # ActiveP4

----------------------------------------------------------------------------
(* C4: the borrowed window of with is bracketed by full TLB flushes: when   *)
(* the body starts entry 511 holds the inactive P4 frame and the TLB is     *)
(* empty; when the scratch page is about to be unmapped entry 511 is        *)
(* restored and the TLB is empty; hence at every step of the body, and at   *)
(* every step after the second flush, no cached translation differs from    *)
(* the one the tables give.                                                 *)
C4_FlushBracket ==
    /\ pc = "body_tag" =>
          /\ Get(mem, ActiveP4, RECURSIVE_INDEX) = Entry(new_table, PW)
          /\ tlb = EmptyTlb
    /\ pc = "with_unmap" =>
          /\ Get(mem, ActiveP4, RECURSIVE_INDEX) = Entry(backup, PW)
          /\ tlb = EmptyTlb
    /\ pc \in BodyPcs \cup {"with_restore", "with_unmap", "rk_switch", "rk_guard", "done"}
          => TlbCoherent

C4_Witness == pc = "rk_switch" /\ ~halted /\ tlb # EmptyTlb

----------------------------------------------------------------------------
(* C5: once remap_kernel has returned, in the table now in use every frame  *)
(* spanned by an allocated section, the display buffer frame and every      *)
(* frame spanned by the boot-information block is identity-mapped           *)
(* (translate of an address in page i is the same address), the display     *)
(* buffer and boot-information frames writable; the one exception is the    *)
(* page of the pre-remap P4 table, which is unmapped.                       *)
C5_IdentityMapped ==
    pc = "done" =>
        /\ \A f \in ExpectedFrames \ {pre.p4} :
              /\ \A o \in Offsets :
                    translate_address(start_address(f) + o) = start_address(f) + o
              /\ f \in DisplayFrames \cup BootInfoFrames
                    => "WRITABLE" \in LeafEntry(Pg(f)).flags
        /\ translate(Machine, Pg(pre.p4)) = NoFrame

C5_Witness ==
    /\ pc = "done"
    /\ Cardinality(AllocatedSectionFrames) >= 3
    /\ Cardinality(BootInfoFrames) >= 2

----------------------------------------------------------------------------
(* C6: InactivePageTable::new leaves the P4 frame with entries 0..510       *)
(* unused and entry 511 referencing the frame itself with PRESENT|WRITABLE, *)
(* whatever the frame held before: the frame is all zero when the           *)
(* self-reference is about to be written, and the scratch page is unmapped  *)
(* again when new returns.                                                  *)
C6_NewTable ==
    /\ pc = "new_set" => mem[new_table] = EmptyTable
    /\ pc \in {"new_unmap", "with_map"} =>
          /\ \A i \in 0 .. (RECURSIVE_INDEX - 1) : Get(mem, new_table, i) = Unused
          /\ SelfMapped(mem, new_table)
    /\ pc = "with_map" =>
          /\ translate(Machine, ScratchPage) = NoFrame
          /\ Resolve(Machine, ScratchPage) = NoFrame

C6_Witness ==
    /\ pc = "with_map"
    /\ ~halted
    /\ \E f \in AllocFrames : mem[f] = StaleTable(ActiveP4)

----------------------------------------------------------------------------
(* C7 (under SpecSwitch): switch(T) leaves the control register at T's P4   *)
(* frame and returns the frame the register named before the call;          *)
(* switching to T and then to the returned table restores the original      *)
(* register and returns T's frame.                                          *)
C7_SwitchRoundTrip ==
    /\ pc = "sw_second" =>
          /\ cr3 = start_address(new_table)
          /\ old_table = pre.p4
    /\ pc = "sw_done" =>
          /\ cr3 = start_address(pre.p4)
          /\ old_table = new_table

C7_Witness == pc = "sw_done" /\ new_table # pre.p4

----------------------------------------------------------------------------
(* C8, as claimed: entry 511 of the P4 the control register names is a      *)
(* present+writable reference to that same frame in every reachable state.  *)
C8_AlwaysSelfMapped == SelfMapped(mem, ActiveP4)

\* the states of with between the substitution and the restoration
BorrowedPcs == {"with_flush1"} \cup BodyPcs \cup {"with_restore"}

(* C8, amended: entry 511 of the P4 in use references that P4 with          *)
(* PRESENT|WRITABLE in every reachable state outside the window of with     *)
(* between the substitution and the restoration; inside the window it       *)
(* references the inactive table's P4 frame.                                *)
C8_SelfMappedOutsideWith ==
    /\ pc \notin BorrowedPcs => SelfMapped(mem, ActiveP4)
    /\ pc \in BorrowedPcs =>
          Get(mem, ActiveP4, RECURSIVE_INDEX) = Entry(new_table, PW)

C8_Witness == pc = "done" /\ ~halted /\ ActiveP4 = new_table

----------------------------------------------------------------------------
(* C9, as claimed: if the body of with fails part-way, entry 511 of the     *)
(* active P4 is set back to the active P4 frame.                            *)
C9_RestoredOnFailure ==
    halted /\ pc \in BodyPcs => SelfMapped(mem, ActiveP4)

(* C9, amended: with restores the recursive slot on its one return path:    *)
(* when with has returned entry 511 of the active P4 references the active  *)
(* P4 and the TLB was flushed after the restoration; a failure inside the   *)
(* body halts the kernel inside with (a panic never returns) with entry 511 *)
(* still referencing the inactive table's P4 frame.                         *)
C9_RestoredOnReturnOnly ==
    /\ pc = "with_unmap" =>
          /\ Get(mem, ActiveP4, RECURSIVE_INDEX) = Entry(ActiveP4, PW)
          /\ P4Page \notin DOMAIN tlb
    /\ pc = "rk_switch" => Get(mem, ActiveP4, RECURSIVE_INDEX) = Entry(ActiveP4, PW)
    /\ halted /\ pc \in BodyPcs =>
          /\ Get(mem, ActiveP4, RECURSIVE_INDEX) = Entry(new_table, PW)
          /\ new_table # ActiveP4

C9_Witness == halted /\ pc = "body_map"

----------------------------------------------------------------------------
\* the allocated sections with a start or an end off a page boundary
MisalignedAnyEnd ==
    {i \in 1 .. Len(sections) :
        /\ sections[i].allocated
        /\ \/ sections[i].addr % PAGE_SIZE # 0
           \/ (sections[i].addr + sections[i].size) % PAGE_SIZE # 0}

MisalignedStart ==
    {i \in 1 .. Len(sections) :
        sections[i].allocated /\ sections[i].addr % PAGE_SIZE # 0}

\* the program has gone past the assertion for section i
PastAssertion(i) ==
    \/ pc = "body_map" /\ sec_i >= i
    \/ pc = "body_section" /\ sec_i > i
    \/ pc \in {"body_vga", "body_multiboot", "with_restore", "with_flush2",
               "with_unmap", "rk_switch", "rk_guard", "done", "returned"}

(* C10, as claimed: a section whose start or end address is not a multiple  *)
(* of the page size makes remap_kernel abort before any of its frames is    *)
(* mapped and before the switch.                                            *)
C10_AbortsOnEitherEnd == \A i \in MisalignedAnyEnd : ~PastAssertion(i)

(* C10, amended: remap_kernel checks the start address only: a section      *)
(* whose start is not a multiple of the page size makes it abort before any *)
(* of that section's frames is mapped and before the switch; a section      *)
(* whose end is not a multiple of the page size is mapped up to and         *)
(* including the frame that holds its last byte.                            *)
C10_AbortsOnStartOnly ==
    /\ \A i \in MisalignedStart : ~PastAssertion(i)
    /\ \A i \in MisalignedAnyEnd \ MisalignedStart :
          (pc = "body_section" /\ sec_i > i) \/ pc = "body_vga" =>
              \A f \in SectionFrames(i) : Walk(mem, new_table, Pg(f)) = f

C10_Witness ==
    /\ halted
    /\ pc = "body_section"
    /\ sec_i \in MisalignedStart
    /\ sec_i > 1

----------------------------------------------------------------------------
\* init, before remap_kernel is called
InitPcs == {"boot", "init_mm_tag", "init_elf_tag", "init_areas", "init_kernel",
            "init_extents", "init_allocator", "init_nxe", "init_wrprot"}

\* remap_kernel, up to and including the call of switch
BeforeSwitchPcs ==
    {"rk_start", "rk_alloc", "new_map", "new_zero", "new_set", "new_unmap",
     "with_map"} \cup WithPcs \cup {"rk_switch"}

\* remap_kernel, once switch has returned
AfterSwitchPcs == {"rk_guard", "done", "returned"}

\* every identity-mapping of the body is there in the new table's hierarchy
BodyCompleted == \A f \in ExpectedFrames : Walk(mem, new_table, Pg(f)) = f

C11_State ==
    /\ pc \in InitPcs \cup BeforeSwitchPcs =>
          /\ ActiveP4 \in BootP4Frames
          /\ ActiveP4 # new_table
    /\ pc \in AfterSwitchPcs =>
          /\ new_table \in AllocFrames
          /\ cr3 = start_address(new_table)
    /\ new_table = NoFrame => pc \in InitPcs \cup {"rk_start", "rk_alloc"}
    /\ pc = "done" => ~halted

C11_Step ==
    /\ ~halted
    /\ cr3' # cr3 =>
          /\ pc = "rk_switch"
          /\ new_table \in AllocFrames
          /\ BodyCompleted
          /\ cr3' = start_address(new_table)

(* C11: remap_kernel either fully succeeds or halts.  The control register  *)
(* changes in one step only, the switch, taken when the new P4 frame was    *)
(* allocated and every frame of the body is identity-mapped in the new      *)
(* table; until then it names the boot table.  A halted kernel takes no     *)
(* further step, so a failure before the switch leaves the control register *)
(* on the original table and remap_kernel never returns; when remap_kernel  *)
(* has returned the kernel is not halted and the new table is in use.       *)
C11_SucceedsOrHalts == [] C11_State /\ [][C11_Step]_vars

C11_Witness == halted /\ pc = "rk_alloc" /\ tiny # <<>> /\ ActiveP4 \in BootP4Frames

----------------------------------------------------------------------------
\* the indices of the two frames the range was built from
FirstIndex == bi_start \div PAGE_SIZE

LastIndex == bi_end \div PAGE_SIZE

RangeLength == IF FirstIndex <= LastIndex THEN LastIndex - FirstIndex + 1 ELSE 0

(* C12 (under SpecFrame): iterating Frame::range_inclusive(start, end)      *)
(* yields the frames start.index, start.index + 1, ... in ascending order,  *)
(* never one beyond end.index, and when the iterator has returned None it   *)
(* has yielded every frame up to end.index exactly once: one frame, start   *)
(* itself, when end = start, and none when end < start.                     *)
C12_RangeInclusive ==
    /\ \A k \in 1 .. Len(yielded) : yielded[k] = FirstIndex + k - 1
    /\ Len(yielded) <= RangeLength
    /\ pc = "fr_done" =>
          /\ Len(yielded) = RangeLength
          /\ FirstIndex = LastIndex => yielded = << FirstIndex >>
          /\ LastIndex < FirstIndex => yielded = <<>>

C12_Witness == pc = "fr_done" /\ Len(yielded) >= 3

----------------------------------------------------------------------------
(* C13 (under SpecFrame): the frame f = Frame::containing_address(a)        *)
(* satisfies f.start_address() <= a < f.start_address() + PAGE_SIZE, for    *)
(* the address the range starts from and for the address it ends at.        *)
C13_ContainingAddress ==
    /\ pc = "fr_next" /\ yielded = <<>> =>
          /\ start_address(iter.start) <= bi_start
          /\ bi_start < start_address(iter.start) + PAGE_SIZE
    /\ pc \in {"fr_next", "fr_done"} =>
          /\ start_address(iter.end) <= bi_end
          /\ bi_end < start_address(iter.end) + PAGE_SIZE

C13_Witness ==
    /\ pc = "fr_next"
    /\ yielded = <<>>
    /\ bi_start > PAGE_SIZE
    /\ bi_start % PAGE_SIZE = PAGE_SIZE - 1

----------------------------------------------------------------------------
C14_Step ==
    /\ called => called'
    /\ pc # "init_mm_tag" /\ pc' = "init_mm_tag" => ~called /\ called'
    /\ pc = "returned" =>
          /\ pc' = "returned"
          /\ UNCHANGED <<cr3, mem, free, tiny, cpu, kernel, out, new_table>>
          /\ tlb' # tlb => ~halted'

(* C14: memory::init runs at most once.  The flag behind assert_first_call  *)
(* is never cleared, and the statements after line 82 are entered only by   *)
(* a call that found the flag clear; a call made when init has returned     *)
(* stops at line 82: the kernel halts there and the control register, the   *)
(* page tables, the frame allocator, the CPU feature bits and the output    *)
(* stay as the first call left them.                                        *)
C14_InitOnce == [][C14_Step]_vars

C14_Witness == halted /\ pc = "returned" /\ called /\ cpu.calls = <<"nxe", "wrprot">>

----------------------------------------------------------------------------
\* how many times the toggle `name` was called
ToggleCalls(name) == Cardinality({k \in 1 .. Len(cpu.calls) : cpu.calls[k] = name})

(* C15: when remap_kernel starts, and from then on, the no-execute bit and  *)
(* the write-protect bit are both enabled and each toggle was called        *)
(* exactly once, no-execute first; in no state was a toggle called twice,   *)
(* and before line 110 of init none was called.                             *)
C15_FeaturesBeforeRemap ==
    /\ pc \in BeforeSwitchPcs \cup AfterSwitchPcs =>
          /\ cpu.nxe
          /\ cpu.wp
          /\ cpu.calls = <<"nxe", "wrprot">>
    /\ ToggleCalls("nxe") <= 1
    /\ ToggleCalls("wrprot") <= 1
    /\ pc \in InitPcs \ {"init_wrprot"} => cpu = NoCpuFeatures

C15_Witness == pc = "rk_start" /\ ~halted /\ cpu.nxe /\ cpu.wp

----------------------------------------------------------------------------
(* C16: from the return of InactivePageTable::new on, through every step of *)
(* with and after it has returned, entry 511 of the inactive table's P4     *)
(* frame references that same frame with PRESENT|WRITABLE (the restoring    *)
(* write of with lands in the active P4, another frame); after the switch   *)
(* that frame is the active P4, it is self-mapped, and the recursive        *)
(* address of the P4 table leads to it.                                     *)
C16_InactiveKeepsSelfReference ==
    /\ pc \in {"with_map"} \cup WithPcs \cup {"rk_switch"} =>
          /\ SelfMapped(mem, new_table)
          /\ new_table # ActiveP4
    /\ pc \in {"with_flush2", "with_unmap", "rk_switch"} =>
          Get(mem, ActiveP4, RECURSIVE_INDEX) = Entry(ActiveP4, PW)
    /\ pc \in AfterSwitchPcs =>
          /\ ActiveP4 = new_table
          /\ SelfMapped(mem, ActiveP4)
          /\ Walk(mem, ActiveP4, P4Page) = new_table

C16_Witness ==
    /\ pc = "rk_guard"
    /\ ~halted
    /\ SelfMapped(mem, new_table)
    /\ SelfMapped(mem, pre.p4)
    /\ new_table # pre.p4

----------------------------------------------------------------------------
Emitted(line) == \E k \in 1 .. Len(out) : out[k] = line

\* the header and one line for each memory area
AreaLines == Len(areas) + 1

(* C17, as claimed: no fatal abort of init happens before the memory-area   *)
(* lines and the kernel-extent line have been emitted.                      *)
C17_DiagnosticsBeforeAnyAbort ==
    halted => Emitted("memory areas:") /\ Emitted("kernel start, kernel end")

(* C17, amended: the memory-area, kernel-extent and boot-info-extent lines  *)
(* are emitted, in this order, before the frame allocator is built, the CPU *)
(* features are toggled and remap_kernel is called, so no failure inside    *)
(* remap_kernel comes before them; the aborts of init itself come earlier:  *)
(* a missing memory-map or ELF-sections tag aborts with nothing emitted,    *)
(* and a section list without an allocated section aborts after the         *)
(* memory-area lines and before the kernel-extent line.                     *)
C17_DiagnosticsBeforeRemap ==
    /\ pc \in {"init_allocator", "init_nxe", "init_wrprot"}
             \cup BeforeSwitchPcs \cup AfterSwitchPcs =>
          /\ Len(out) >= AreaLines + 2
          /\ out[1] = "memory areas:"
          /\ \A k \in 2 .. AreaLines : out[k] = "  start, length"
          /\ out[AreaLines + 1] = "kernel start, kernel end"
          /\ out[AreaLines + 2] = "multiboot start, multiboot end"
    /\ halted /\ pc \in {"init_mm_tag", "init_elf_tag"} => out = <<>>
    /\ halted /\ pc = "init_kernel" =>
          /\ Len(out) = AreaLines
          /\ out[1] = "memory areas:"
          /\ ~Emitted("kernel start, kernel end")

C17_Witness ==
    /\ halted
    /\ pc = "body_multiboot"
    /\ Emitted("memory areas:")
    /\ Emitted("kernel start, kernel end")
    /\ Emitted("multiboot start, multiboot end")

----------------------------------------------------------------------------
\* the frame the scratch page is mapped to in the hierarchy rooted at `root`
ScratchIn(root) == Walk(mem, root, ScratchPage)

NewPcs == {"new_zero", "new_set", "new_unmap"}

(* C18: in the active table's hierarchy the scratch page is mapped exactly  *)
(* while InactivePageTable::new or ActivePageTable::with is at work: to the *)
(* new P4 frame inside new, to the active P4 frame inside with from before  *)
(* the substitution until after the restoration, and to nothing (with no    *)
(* cached translation left) before, between and after the two calls; the    *)
(* inactive table's hierarchy never maps it.  So each map_table_frame finds *)
(* the scratch page unmapped, each unmap finds it mapped, and neither the   *)
(* two unmaps nor the second map_table_frame fail.                          *)
C18_ScratchPageScoped ==
    /\ pc \in InitPcs \cup {"rk_start", "rk_alloc", "new_map", "with_map", "rk_switch"}
             \cup AfterSwitchPcs =>
          /\ ScratchIn(ActiveP4) = NoFrame
          /\ ScratchPage \notin DOMAIN tlb
    /\ pc \in NewPcs => ScratchIn(ActiveP4) = new_table
    /\ pc \in WithPcs =>
          /\ ScratchIn(ActiveP4) = ActiveP4
          /\ backup = ActiveP4
    /\ new_table # NoFrame => ScratchIn(new_table) = NoFrame
    /\ pc \in {"new_map", "with_map"} /\ ~halted =>
          translate(Machine, ScratchPage) = NoFrame
    /\ pc \in {"new_unmap", "with_unmap"} => translate(Machine, ScratchPage) # NoFrame
    /\ pc \in {"new_unmap", "with_map", "with_unmap"} => ~halted

C18_Witness ==
    /\ pc = "rk_switch"
    /\ ~halted
    /\ ScratchIn(ActiveP4) = NoFrame
    /\ "PRESENT" \in Get(mem, ActiveP4, ScratchPage[1]).flags

----------------------------------------------------------------------------
(* C19: the guard-page step runs with the new table in use and looks the    *)
(* old P4's page up in the new table: the page is mapped there exactly when *)
(* the pre-remap P4 frame is a frame the body identity-mapped (of an        *)
(* allocated section, the display buffer or the boot-information block).    *)
(* Then the step clears it in the new table, leaving the old hierarchy as   *)
(* it was; otherwise the unmap meets an absent entry and the kernel halts   *)
(* in that step, the new table in use, and remap_kernel does not return.    *)
C19_GuardNeedsMappedPage ==
    /\ pc = "rk_guard" /\ ~halted =>
          /\ old_table = pre.p4
          /\ ActiveP4 = new_table
          /\ (translate(Machine, old_p4_page(old_table)) # NoFrame)
                <=> (pre.p4 \in ExpectedFrames)
    /\ pc = "rk_guard" /\ halted =>
          /\ pre.p4 \notin ExpectedFrames
          /\ ActiveP4 = new_table
          /\ Walk(mem, new_table, Pg(pre.p4)) = NoFrame
    /\ pc \in {"done", "returned"} =>
          /\ pre.p4 \in ExpectedFrames
          /\ Walk(mem, new_table, Pg(pre.p4)) = NoFrame
          /\ Walk(mem, pre.p4, Pg(pre.p4)) = Walk(pre.mem, pre.p4, Pg(pre.p4))

C19_Witness ==
    /\ halted
    /\ pc = "rk_guard"
    /\ pre.p4 \notin ExpectedFrames
    /\ cr3 = start_address(new_table)

----------------------------------------------------------------------------
AllocatedIndices == {j \in 1 .. Len(sections) : sections[j].allocated}

\* the allocated sections, the display buffer frame and the boot-information
\* frames share no frame
RegionsDisjoint ==
    /\ \A i, j \in AllocatedIndices :
          i # j => SectionFrames(i) \cap SectionFrames(j) = {}
    /\ AllocatedSectionFrames \cap (DisplayFrames \cup BootInfoFrames) = {}
    /\ DisplayFrames \cap BootInfoFrames = {}

\* the frame the next identity_map of the body is about to map (NoFrame if none)
NextIdentityMapped ==
    IF halted THEN NoFrame
    ELSE IF pc \in {"body_map", "body_multiboot"} THEN FrameIter_next(iter).item
    ELSE IF pc = "body_vga" THEN vga_buffer_frame
    ELSE NoFrame

\* the body has run to its end
BodyReturnedPcs == {"with_restore", "with_flush2", "with_unmap", "rk_switch"}
                   \cup AfterSwitchPcs

(* C20: when the allocated sections start page-aligned and the allocated    *)
(* sections, the display buffer frame and the boot-information frames are   *)
(* pairwise disjoint, every identity_map of the body finds its page absent  *)
(* from the new table; when two of the regions share a frame the body never *)
(* runs to its end: the kernel halts inside with, before the switch, the    *)
(* control register on the boot table.                                      *)
C20_NoDoubleIdentityMap ==
    /\ MisalignedStart = {} /\ RegionsDisjoint /\ NextIdentityMapped # NoFrame =>
          /\ Walk(mem, new_table, Pg(NextIdentityMapped)) = NoFrame
          /\ translate(Machine, Pg(NextIdentityMapped)) = NoFrame
    /\ ~RegionsDisjoint =>
          /\ pc \notin BodyReturnedPcs
          /\ ActiveP4 \in BootP4Frames

C20_Witness ==
    /\ halted
    /\ pc = "body_multiboot"
    /\ MisalignedStart = {}
    /\ BootInfoFrames = {13}
    /\ 13 \in AllocatedSectionFrames
    /\ Walk(mem, new_table, Pg(13)) = 13
    /\ free # <<>>

============================================================================
